---- MODULE Spec2Model ----
(***************************************************************************)
(* A model of biors: a Sequence stores text over an Alphabet as one byte   *)
(* per symbol, through an AsciiIndexEncoder that maps the symbol at        *)
(* position i of the alphabet's symbol list to the byte i.                 *)
(*                                                                         *)
(* A Rust &str is modelled as its UTF-8 bytes (a sequence of 0..255); a    *)
(* char is its Unicode scalar value.  Byte offsets are 0-based as in Rust. *)
(***************************************************************************)
EXTENDS Integers, Sequences, FiniteSets, TLC

VARIABLES alphabet, mapping, string, circular, last,
          generator, overflow_checks, pointer_width, id_iter

\* the ByteIdGenerator at hand, the ByteIdIter over it, and the build:
\* its overflow-checks setting and the number of bits of its usize
genvars == <<generator, overflow_checks, pointer_width, id_iter>>

vars == <<alphabet, mapping, string, circular, last, genvars>>

(***************************************************************************)
(* Bounds of the model.                                                    *)
(***************************************************************************)
\* longest text (in chars) handed to push, push_unchecked and extend
MaxTextLen == 4
\* largest symbol_size() an alphabet of the model declares
MaxSymbolSize == 2
\* most symbols in an alphabet's symbol list
MaxSymbols == 2
\* the buffer is not grown beyond this many bytes
MaxBuf == 4
\* most symbols / bytes handed to encode_all / decode_all / decode
MaxCodes == 2

\* the chars of the model: 'A' (one UTF-8 byte) and U+0251 (two UTF-8 bytes)
Chars == {65, 593}

(***************************************************************************)
(* UTF-8 strings.                                                          *)
(***************************************************************************)
\* char::len_utf8
LenUtf8(c) ==
    IF c < 128 THEN 1 ELSE IF c < 2048 THEN 2 ELSE IF c < 65536 THEN 3 ELSE 4

\* the UTF-8 bytes of one char (chars of at most three bytes)
Utf8Char(c) ==
    IF c < 128 THEN <<c>>
    ELSE IF c < 2048 THEN <<192 + (c \div 64), 128 + (c % 64)>>
    ELSE <<224 + (c \div 4096), 128 + ((c \div 64) % 64), 128 + (c % 64)>>

RECURSIVE Utf8(_)
\* the &str holding the chars cs
Utf8(cs) ==
    IF cs = <<>> THEN <<>> ELSE Utf8Char(Head(cs)) \o Utf8(Tail(cs))

\* &s[from .. to], byte offsets
Slice(s, from, to) == SubSeq(s, from + 1, to)

\* the char that starts at byte offset off of s
CharAt(s, off) ==
    LET b == s[off + 1] IN
    IF b < 128 THEN b
    ELSE IF b < 224 THEN (b - 192) * 64 + (s[off + 2] - 128)
    ELSE (b - 224) * 4096 + (s[off + 2] - 128) * 64 + (s[off + 3] - 128)

RECURSIVE CharIndicesFrom(_, _)
CharIndicesFrom(s, off) ==
    IF off >= Len(s) THEN <<>>
    ELSE LET c == CharAt(s, off)
         IN  <<<<off, c>>>> \o CharIndicesFrom(s, off + LenUtf8(c))

\* str::char_indices: the (byte offset, char) pairs of s, in order
CharIndices(s) == CharIndicesFrom(s, 0)

\* str::chars().count()
CharCount(s) == Len(CharIndices(s))

\* Iterator::step_by(n): the first element and then every n-th
StepBy(xs, n) == [i \in 1..((Len(xs) + n - 1) \div n) |-> xs[(i - 1) * n + 1]]

\* Iterator::skip(n)
Skip(xs, n) == SubSeq(xs, n + 1, Len(xs))

RECURSIVE Flatten(_)
\* the concatenation of a sequence of sequences
Flatten(xss) ==
    IF xss = <<>> THEN <<>> ELSE Head(xss) \o Flatten(Tail(xss))

\* the closure of string_chunks' flat_map: the chunk that starts at byte
\* offset from, as a list of zero or one &str
ChunkAt(src, chunk_size, from) ==
    LET rest == Skip(CharIndices(Slice(src, from, Len(src))), chunk_size - 1)
    IN  IF rest = <<>> THEN <<>>
        ELSE LET to == rest[1][1]
                 c  == rest[1][2]
             IN  <<Slice(src, from, from + to + LenUtf8(c))>>

\* string_chunks with the chunk cut at raw byte offsets j*chunk_size
string_chunks_bytes(src, chunk_size) ==
    [j \in 1..(Len(src) \div chunk_size) |->
        Slice(src, (j - 1) * chunk_size, j * chunk_size)]

\* string_chunks(src, chunk_size): the chunks of chunk_size chars, in order
string_chunks(src, chunk_size) ==
    LET starts == StepBy(CharIndices(src), chunk_size)
    IN  Flatten([i \in 1..Len(starts) |-> ChunkAt(src, chunk_size, starts[i][1])])

(***************************************************************************)
(* Results: Ok(v), Err(kind, payload), or a panic.                         *)
(***************************************************************************)
Ok(v) == [kind |-> "Ok", value |-> v]

Err(k, v) == [kind |-> k, value |-> v]

Panic == [kind |-> "Panic", value |-> <<>>]

(***************************************************************************)
(* Alphabet.                                                               *)
(***************************************************************************)
\* Alphabet::contains
contains(a, s) == \E i \in 1..Len(a.symbols) : a.symbols[i] = s

(***************************************************************************)
(* AsciiIndexEncoder.  The BiHashMap is the set of its (symbol, byte)      *)
(* pairs; no two pairs share a symbol or a byte.                           *)
(***************************************************************************)
\* the number of values of a u8
U8 == 256

\* what BiHashMap::insert(l, r) reports: whether a pair held l or r before
Overwritten(m, l, r) ==
    LET hasL == \E p \in m : p[1] = l
        hasR == \E p \in m : p[2] = r
    IN  IF <<l, r>> \in m THEN "Pair"
        ELSE IF hasL /\ hasR THEN "Both"
        ELSE IF hasL THEN "Left"
        ELSE IF hasR THEN "Right"
        ELSE "Neither"

\* the map after BiHashMap::insert(l, r): pairs holding l or r are replaced
Inserted(m, l, r) ==
    {p \in m : p[1] # l /\ p[2] # r} \cup {<<l, r>>}

RECURSIVE InsertAllFromOne(_, _, _)
\* the loop of construct_mapping with the bytes counted from 1
InsertAllFromOne(symbols, index, m) ==
    IF index >= Len(symbols) THEN Ok(m)
    ELSE LET symbol == symbols[index + 1]
             byte   == (index + 1) % U8
         IN  IF Overwritten(m, symbol, byte) # "Neither" THEN Panic
             ELSE InsertAllFromOne(symbols, index + 1, Inserted(m, symbol, byte))

RECURSIVE InsertAllNoCheck(_, _, _)
\* the loop of construct_mapping without the test of what insert reports
InsertAllNoCheck(symbols, index, m) ==
    IF index >= Len(symbols) THEN Ok(m)
    ELSE InsertAllNoCheck(symbols, index + 1,
                          Inserted(m, symbols[index + 1], index % U8))

\* one iteration of the loop of construct_mapping: the symbol at position
\* index (0-based) is inserted with the byte index as u8
InsertOne(symbols, index, m) ==
    LET symbol == symbols[index + 1]
        byte   == index % U8
    IN  IF Overwritten(m, symbol, byte) # "Neither" THEN Panic
        ELSE Ok(Inserted(m, symbol, byte))

RECURSIVE InsertRange(_, _, _, _)
\* the iterations of the loop for the positions from .. to - 1, in order:
\* those of the first half, then, unless one of them panicked, the others
InsertRange(symbols, from, to, m) ==
    IF from >= to THEN Ok(m)
    ELSE IF to = from + 1 THEN InsertOne(symbols, from, m)
    ELSE LET mid   == (from + to) \div 2
             first == InsertRange(symbols, from, mid, m)
         IN  IF first.kind # "Ok" THEN Panic
             ELSE InsertRange(symbols, mid, to, first.value)

\* the loop of construct_mapping from position index (0-based) on
InsertAll(symbols, index, m) == InsertRange(symbols, index, Len(symbols), m)

\* construct_mapping refusing a size that reaches the number of u8 values
construct_mapping_ge(a) ==
    IF a.max_alphabet_size >= U8 \/ Len(a.symbols) >= U8 THEN Panic
    ELSE InsertAll(a.symbols, 0, {})

\* AsciiIndexEncoder::construct_mapping
construct_mapping(a) ==
    IF a.max_alphabet_size > U8 \/ Len(a.symbols) > U8 THEN Panic
    ELSE InsertAll(a.symbols, 0, {})

\* BiHashMap::get_by_left: the bytes paired with symbol (none or one)
get_by_left(m, symbol) == {p[2] : p \in {q \in m : q[1] = symbol}}

\* BiHashMap::get_by_right: the symbols paired with byte (none or one)
get_by_right(m, byte) == {p[1] : p \in {q \in m : q[2] = byte}}

\* encode that asks the alphabet before it looks the symbol up
encode_alphabet_first(m, a, symbol) ==
    IF ~contains(a, symbol) THEN Err("InvalidSymbol", symbol)
    ELSE LET res == {p[2] : p \in {q \in m : q[1] = symbol}}
         IN  IF res # {} THEN Ok(<<CHOOSE b \in res : TRUE>>)
             ELSE Err("NoMapping", <<>>)

\* encode with the two error branches exchanged
encode_swapped(m, a, symbol) ==
    LET res == {p[2] : p \in {q \in m : q[1] = symbol}}
    IN  IF res # {} THEN Ok(<<CHOOSE b \in res : TRUE>>)
        ELSE IF contains(a, symbol) THEN Err("InvalidSymbol", symbol)
        ELSE Err("NoMapping", <<>>)

\* encode that reports every symbol without a mapping as InvalidSymbol
encode_invalid_only(m, a, symbol) ==
    LET res == {p[2] : p \in {q \in m : q[1] = symbol}}
    IN  IF res # {} THEN Ok(<<CHOOSE b \in res : TRUE>>)
        ELSE Err("InvalidSymbol", symbol)

\* AsciiIndexEncoder::encode
encode(m, a, symbol) ==
    LET res == get_by_left(m, symbol)
    IN  IF res # {} THEN Ok(<<CHOOSE b \in res : TRUE>>)
        ELSE IF ~contains(a, symbol) THEN Err("InvalidSymbol", symbol)
        ELSE Err("NoMapping", <<>>)

RECURSIVE DecodeLoop(_, _, _)
\* the loop of decode_all over the bytes not yet decoded
DecodeLoop(m, bytes, decoded) ==
    IF bytes = <<>> THEN Ok(decoded)
    ELSE LET next_symbol == get_by_right(m, Head(bytes))
         IN  IF next_symbol = {} THEN Err("NoMapping", <<>>)
             ELSE DecodeLoop(m, Tail(bytes),
                             Append(decoded, CHOOSE s \in next_symbol : TRUE))

RECURSIVE DecodeLoopSkip(_, _, _)
\* the loop of decode_all passing over the bytes that have no symbol
DecodeLoopSkip(m, bytes, decoded) ==
    IF bytes = <<>> THEN Ok(decoded)
    ELSE LET next_symbol == {p[1] : p \in {q \in m : q[2] = Head(bytes)}}
         IN  IF next_symbol = {} THEN DecodeLoopSkip(m, Tail(bytes), decoded)
             ELSE DecodeLoopSkip(m, Tail(bytes),
                                 Append(decoded, CHOOSE s \in next_symbol : TRUE))

\* decode_all that leaves out the bytes that have no symbol
decode_all_skip(m, bytes) == DecodeLoopSkip(m, bytes, <<>>)

\* AsciiIndexEncoder::decode_all
decode_all(m, bytes) == DecodeLoop(m, bytes, <<>>)

\* AlphabetEncoder::decode
decode(m, bytes) ==
    LET decoded == decode_all(m, bytes)
    IN  IF decoded.kind # "Ok" THEN decoded
        ELSE IF Len(decoded.value) = 1 THEN Ok(decoded.value[1])
        ELSE Err("InvalidBytes", bytes)

RECURSIVE EncodeLoop(_, _, _, _)
\* the loop of encode_all over the symbols not yet encoded
EncodeLoop(m, a, syms, encoded) ==
    IF syms = <<>> THEN Ok(encoded)
    ELSE LET e == encode(m, a, Head(syms))
         IN  IF e.kind # "Ok" THEN e
             ELSE EncodeLoop(m, a, Tail(syms), encoded \o e.value)

RECURSIVE EncodeLoopLast(_, _, _, _, _)
\* the loop of encode_all going on after a failure; failed is the latest one
EncodeLoopLast(m, a, syms, encoded, failed) ==
    IF syms = <<>> THEN (IF failed = <<>> THEN Ok(encoded) ELSE failed[1])
    ELSE LET e == encode(m, a, Head(syms))
         IN  IF e.kind # "Ok"
             THEN EncodeLoopLast(m, a, Tail(syms), encoded, <<e>>)
             ELSE EncodeLoopLast(m, a, Tail(syms), encoded \o e.value, failed)

\* encode_all that encodes every symbol and returns the last error
encode_all_last_error(m, a, syms) == EncodeLoopLast(m, a, syms, <<>>, <<>>)

\* AlphabetEncoder::encode_all
encode_all(m, a, syms) == EncodeLoop(m, a, syms, <<>>)

(***************************************************************************)
(* Sequence.  Each operation is a function of the encoder's mapping m, the *)
(* alphabet a and the buffer str, and yields its result and the buffer     *)
(* after it.                                                               *)
(***************************************************************************)
\* push with the length check on seq.len(), the byte length
push_len_bytes(m, a, str, seq) ==
    LET symbol_size == a.symbol_size IN
    IF Len(seq) % symbol_size # 0
    THEN [result |-> Err("InvalidLength", <<>>), string |-> str]
    ELSE LET encoded == encode_all(m, a, string_chunks(seq, symbol_size))
         IN  IF encoded.kind # "Ok"
             THEN [result |-> encoded, string |-> str]
             ELSE [result |-> Ok(<<>>), string |-> str \o encoded.value]

RECURSIVE PushEach(_, _, _, _)
\* the chunks encoded and appended one at a time, up to the first failure
PushEach(m, a, str, split) ==
    IF split = <<>> THEN [result |-> Ok(<<>>), string |-> str]
    ELSE LET e == encode(m, a, Head(split))
         IN  IF e.kind # "Ok" THEN [result |-> e, string |-> str]
             ELSE PushEach(m, a, str \o e.value, Tail(split))

\* push that appends chunk by chunk, so a failure keeps the earlier chunks
push_partial(m, a, str, seq) ==
    IF CharCount(seq) % a.symbol_size # 0
    THEN [result |-> Err("InvalidLength", <<>>), string |-> str]
    ELSE PushEach(m, a, str, string_chunks(seq, a.symbol_size))

\* push that puts the new codes in front of the buffer
push_prepend(m, a, str, seq) ==
    IF CharCount(seq) % a.symbol_size # 0
    THEN [result |-> Err("InvalidLength", <<>>), string |-> str]
    ELSE LET encoded == encode_all(m, a, string_chunks(seq, a.symbol_size))
         IN  IF encoded.kind # "Ok"
             THEN [result |-> encoded, string |-> str]
             ELSE [result |-> Ok(<<>>), string |-> encoded.value \o str]

\* push that stores the bytes of the text instead of the codes
push_raw(m, a, str, seq) ==
    IF CharCount(seq) % a.symbol_size # 0
    THEN [result |-> Err("InvalidLength", <<>>), string |-> str]
    ELSE LET encoded == encode_all(m, a, string_chunks(seq, a.symbol_size))
         IN  IF encoded.kind # "Ok"
             THEN [result |-> encoded, string |-> str]
             ELSE [result |-> Ok(<<>>), string |-> str \o seq]

\* Sequence::push
push(m, a, str, seq) ==
    LET symbol_size == a.symbol_size IN
    IF CharCount(seq) % symbol_size # 0
    THEN [result |-> Err("InvalidLength", <<>>), string |-> str]
    ELSE LET split   == string_chunks(seq, symbol_size)
             encoded == encode_all(m, a, split)
         IN  IF encoded.kind # "Ok"
             THEN [result |-> encoded, string |-> str]
             ELSE [result |-> Ok(<<>>), string |-> str \o encoded.value]

\* push_unchecked that keeps push's length check
push_unchecked_checked(m, a, str, seq) ==
    IF CharCount(seq) % a.symbol_size # 0
    THEN [result |-> Err("InvalidLength", <<>>), string |-> str]
    ELSE LET encoded == encode_all(m, a, string_chunks(seq, a.symbol_size))
         IN  IF encoded.kind # "Ok"
             THEN [result |-> encoded, string |-> str]
             ELSE [result |-> Ok(<<>>), string |-> str \o encoded.value]

\* Sequence::push_unchecked
push_unchecked(m, a, str, seq) ==
    LET symbol_size == a.symbol_size
        split       == string_chunks(seq, symbol_size)
        encoded     == encode_all(m, a, split)
    IN  IF encoded.kind # "Ok"
        THEN [result |-> encoded, string |-> str]
        ELSE [result |-> Ok(<<>>), string |-> str \o encoded.value]

RECURSIVE ExtendFrom(_, _, _, _, _)
\* the loop of extend over the items not yet pushed; a failing push puts
\* the buffer back to what it held at the start
ExtendFrom(m, a, start, str, iter) ==
    IF iter = <<>> THEN [result |-> Ok(<<>>), string |-> str]
    ELSE LET p == push(m, a, str, Head(iter))
         IN  IF p.result.kind = "Ok"
             THEN ExtendFrom(m, a, start, p.string, Tail(iter))
             ELSE [result |-> Panic, string |-> start]

\* extend that rolls the buffer back when a push fails
extend_rollback(m, a, str, iter) == ExtendFrom(m, a, str, str, iter)

RECURSIVE extend(_, _, _, _)
\* Extend::extend: push every item; the first failing push panics
extend(m, a, str, iter) ==
    IF iter = <<>> THEN [result |-> Ok(<<>>), string |-> str]
    ELSE LET p == push(m, a, str, Head(iter))
         IN  IF p.result.kind = "Ok"
             THEN extend(m, a, p.string, Tail(iter))
             ELSE [result |-> Panic, string |-> p.string]

\* clear that keeps the first code
clear_keeps_first(str) == IF str = <<>> THEN <<>> ELSE <<str[1]>>

\* Sequence::clear
clear(str) == <<>>

(***************************************************************************)
(* The inputs of the model.                                                *)
(***************************************************************************)
\* the sequences of at most n elements of S
SeqsUpTo(S, n) == UNION {[1..k -> S] : k \in 0..n}

\* the texts of at most MaxTextLen chars
Texts == {Utf8(cs) : cs \in SeqsUpTo(Chars, MaxTextLen)}

\* c repeated k times
Rep(c, k) == [i \in 1..k |-> c]

\* the symbols an alphabet of symbol size k is made of: one per char
SymbolPool(k) == {Utf8(Rep(c, k)) : c \in Chars}

\* the symbol lists of an alphabet of symbol size k; a list may hold a
\* symbol twice, which the encoder refuses
SymbolLists(k) == SeqsUpTo(SymbolPool(k), MaxSymbols)

\* the values max_alphabet_size() takes: the default and one too many
MaxAlphabetSizes == {U8, U8 + 1}

Alphabets ==
    UNION {[symbols : SymbolLists(k), symbol_size : {k},
            max_alphabet_size : MaxAlphabetSizes,
            changed_symbols : {FALSE}] : k \in 1..MaxSymbolSize}

\* the chars cs as consecutive items of w chars each (the last may be shorter)
ItemsOf(cs, w) ==
    [i \in 1..((Len(cs) + w - 1) \div w) |->
        Utf8(SubSeq(cs, (i - 1) * w + 1,
                        IF i * w > Len(cs) THEN Len(cs) ELSE i * w))]

\* the item lists handed to extend
ItemLists ==
    {ItemsOf(p[1], p[2]) : p \in SeqsUpTo(Chars, MaxTextLen) \X (1..MaxTextLen)}

\* "T": a string that is a symbol of no alphabet of the model
NotASymbol == <<84>>

\* the strings handed to encode and encode_all
SymbolInputs(k) == SymbolPool(k) \cup {NotASymbol}

\* the byte strings handed to decode and decode_all; the byte MaxSymbols is
\* the code of no symbol
ByteInputs == SeqsUpTo(0..MaxSymbols, MaxCodes)

(***************************************************************************)
(* State.  alphabet: the Alphabet the encoder borrows: its symbol list,    *)
(* its symbol_size() and max_alphabet_size(), and whether it has changed   *)
(* its symbols since the encoder was built; mapping: the encoder's         *)
(* BiHashMap; string, circular: the Sequence's fields; last: the result    *)
(* the caller holds: the call, its input (str or strs) and what it         *)
(* returned (kind, and the payload out or outs).  A panic ends the         *)
(* program.                                                                *)
(***************************************************************************)
Call(op, str, strs, kind, out, outs) ==
    [op |-> op, str |-> str, strs |-> strs, kind |-> kind, out |-> out,
     outs |-> outs]

NoCall == Call("none", <<>>, <<>>, "Ok", <<>>, <<>>)

\* the caller holds no result and makes its next call
Idle == last = NoCall

Panicked == last.kind = "Panic"

\* Sequence::new(alphabet).circular(circ): AsciiIndexEncoder::new builds
\* the mapping, or panics
\* no ByteIdGenerator yet
NoGenerator == [max |-> <<>>, num_bytes |-> 0]

\* no ByteIdIter
NoIter == [index |-> <<>>]

Init ==
    /\ generator = NoGenerator
    /\ id_iter = NoIter
    /\ overflow_checks = FALSE
    /\ pointer_width = 64
    /\ alphabet \in Alphabets
    /\ circular \in BOOLEAN
    /\ string = <<>>
    /\ \E built \in {construct_mapping(alphabet)} :
           /\ mapping = IF built.kind = "Ok" THEN built.value ELSE {}
           /\ last = Call("new", <<>>, <<>>, built.kind, <<>>, <<>>)

\* the caller drops the result of the last call
Forget ==
    /\ ~Idle
    /\ ~Panicked
    /\ last' = NoCall
    /\ UNCHANGED <<alphabet, mapping, string, circular, genvars>>

Push(seq) ==
    /\ Idle
    /\ \E r \in {push(mapping, alphabet, string, seq)} :
           /\ Len(r.string) <= MaxBuf
           /\ string' = r.string
           /\ last' = Call("push", seq, <<>>, r.result.kind, r.result.value, <<>>)
    /\ UNCHANGED <<alphabet, mapping, circular, genvars>>

PushUnchecked(seq) ==
    /\ Idle
    /\ \E r \in {push_unchecked(mapping, alphabet, string, seq)} :
           /\ Len(r.string) <= MaxBuf
           /\ string' = r.string
           /\ last' = Call("push_unchecked", seq, <<>>, r.result.kind,
                           r.result.value, <<>>)
    /\ UNCHANGED <<alphabet, mapping, circular, genvars>>

Extend(iter) ==
    /\ Idle
    /\ \E r \in {extend(mapping, alphabet, string, iter)} :
           /\ Len(r.string) <= MaxBuf
           /\ string' = r.string
           /\ last' = Call("extend", <<>>, iter, r.result.kind, <<>>, <<>>)
    /\ UNCHANGED <<alphabet, mapping, circular, genvars>>

Clear ==
    /\ Idle
    /\ string' = clear(string)
    /\ last' = Call("clear", <<>>, <<>>, "Ok", <<>>, <<>>)
    /\ UNCHANGED <<alphabet, mapping, circular, genvars>>

\* a Sequence built by Sequence::new: it owns its encoder, whose mapping
\* nothing rebuilds, over an alphabet whose symbol table is fixed
Next ==
    \/ Forget
    \/ \E seq \in Texts : Push(seq)
    \/ \E seq \in Texts : PushUnchecked(seq)
    \/ \E iter \in ItemLists : Extend(iter)
    \/ Clear

Spec == Init /\ [][Next]_vars

(***************************************************************************)
(* What the claims speak of, stated without the code's own chunking: the   *)
(* chars of a text are counted and located by their leading bytes.         *)
(***************************************************************************)
\* a byte that starts a char (not a UTF-8 continuation byte 10xxxxxx)
StartsChar(b) == b < 128 \/ b >= 192

\* the number of Unicode scalar values of t
NumChars(t) == Cardinality({i \in 1..Len(t) : StartsChar(t[i])})

\* the position in t of the first byte of char number j (1-based); one
\* past the end of t for j = NumChars(t) + 1
CharStart(t, j) ==
    IF j > NumChars(t) THEN Len(t) + 1
    ELSE CHOOSE i \in 1..Len(t) :
            /\ StartsChar(t[i])
            /\ Cardinality({h \in 1..i : StartsChar(t[h])}) = j

\* chars (j-1)*k+1 .. j*k of t: its j-th chunk of k chars (1-based)
ChunkOf(t, k, j) ==
    SubSeq(t, CharStart(t, (j - 1) * k + 1), CharStart(t, j * k + 1) - 1)

\* the complete chunks of k chars of t, in text order
ChunksOf(t, k) == [j \in 1..(NumChars(t) \div k) |-> ChunkOf(t, k, j)]

\* symbol s has a code in the mapping m
Mapped(m, s) == \E p \in m : p[1] = s

\* the code of a mapped symbol
CodeOf(m, s) == CHOOSE b \in 0..(U8 - 1) : <<s, b>> \in m

\* the codes of the complete chunks of t, in text order
CodesOf(m, t, k) ==
    [j \in 1..(NumChars(t) \div k) |-> CodeOf(m, ChunkOf(t, k, j))]

\* every complete chunk of t is a mapped symbol
AllMapped(m, t, k) ==
    \A j \in 1..(NumChars(t) \div k) : Mapped(m, ChunkOf(t, k, j))

\* the position (0-based) of symbol s in the alphabet's symbol list
PositionOf(a, s) == (CHOOSE i \in 1..Len(a.symbols) : a.symbols[i] = s) - 1

\* t holds a char of more than one byte
MultiByte(t) == Len(t) > NumChars(t)

(***************************************************************************)
(* Claims about Sequence (specification Spec).                             *)
(***************************************************************************)
\* C1: push returns InvalidLength exactly when the number of chars of the
\* text is not a multiple of the alphabet's symbol_size.
C1_PushInvalidLength ==
    last.op = "push" =>
        (last.kind = "InvalidLength"
            <=> NumChars(last.str) % alphabet.symbol_size # 0)

\* C1 witness: a push refused for its char count although the byte length
\* of its text is a multiple of symbol_size.
C1_Witness ==
    /\ last.op = "push"
    /\ last.kind = "InvalidLength"
    /\ alphabet.symbol_size > 1
    /\ Len(last.str) % alphabet.symbol_size = 0

\* C2: a push that returns an error leaves the buffer as it was.
C2_PushErrorKeepsBuffer ==
    [][(last'.op = "push" /\ last'.kind # "Ok") => string' = string]_vars

\* C2 witness: a push onto a non-empty buffer failed with InvalidSymbol at
\* a chunk that follows a valid chunk.
C2_Witness ==
    /\ last.op = "push"
    /\ last.kind = "InvalidSymbol"
    /\ string # <<>>
    /\ NumChars(last.str) >= 2 * alphabet.symbol_size
    /\ Mapped(mapping, ChunkOf(last.str, alphabet.symbol_size, 1))

\* C3: a successful push appends to the buffer the codes of the consecutive
\* symbol_size-char chunks of the text, in text order, and nothing else;
\* the code of a chunk is its position in the alphabet's symbol list.
C3_PushAppendsCodes ==
    [][(last'.op = "push" /\ last'.kind = "Ok") =>
          /\ AllMapped(mapping, last'.str, alphabet.symbol_size)
          /\ string' = string \o
                 CodesOf(mapping, last'.str, alphabet.symbol_size)
          /\ \A j \in 1..(Len(string') - Len(string)) :
                 string'[Len(string) + j] =
                     PositionOf(alphabet,
                                ChunkOf(last'.str, alphabet.symbol_size, j))]_vars

\* C3 witness: a successful push of two different chunks, one of them of
\* multi-byte chars, onto a buffer that already held a code.
C3_Witness ==
    /\ last.op = "push"
    /\ last.kind = "Ok"
    /\ alphabet.symbol_size = 2
    /\ NumChars(last.str) = 4
    /\ MultiByte(last.str)
    /\ Len(string) = 3
    /\ string[2] # string[3]

\* C4: push_unchecked on a text all of whose complete chunks are valid
\* succeeds and appends exactly the codes of the floor(chars / symbol_size)
\* complete leading chunks, whatever trails them; on a text whose length is
\* a multiple of symbol_size it returns and stores what push does.
C4_PushUnchecked ==
    [][last'.op = "push_unchecked" =>
          /\ AllMapped(mapping, last'.str, alphabet.symbol_size) =>
                /\ last'.kind = "Ok"
                /\ string' = string \o
                       CodesOf(mapping, last'.str, alphabet.symbol_size)
          /\ NumChars(last'.str) % alphabet.symbol_size = 0 =>
                \E r \in {push(mapping, alphabet, string, last'.str)} :
                    /\ last'.kind = r.result.kind
                    /\ string' = r.string]_vars

\* C4 witness: a successful push_unchecked of a text with a trailing char
\* that stored the code of its complete chunk.
C4_Witness ==
    /\ last.op = "push_unchecked"
    /\ last.kind = "Ok"
    /\ NumChars(last.str) % alphabet.symbol_size # 0
    /\ NumChars(last.str) > alphabet.symbol_size
    /\ string # <<>>

\* C5: for every k >= 1, string_chunks(src, k) is the list of the
\* floor(n / k) complete chunks of src: chunk j holds the chars
\* j*k .. j*k+k-1, cut at char boundaries; trailing chars are in no chunk.
C5_StringChunks ==
    last.op \in {"push", "push_unchecked"} =>
        \A k \in 1..(MaxTextLen + 1) :
            string_chunks(last.str, k) = ChunksOf(last.str, k)

\* C5 witness: a text of multi-byte and one-byte chars with a trailing
\* char was chunked at width 2.
C5_Witness ==
    /\ last.op = "push_unchecked"
    /\ alphabet.symbol_size = 2
    /\ NumChars(last.str) = 3
    /\ MultiByte(last.str)
    /\ Len(last.str) < 2 * NumChars(last.str)

\* C6: the buffer is always a concatenation of codes of the encoder's
\* mapping, whatever calls were made and whether they failed.
C6_BufferHoldsCodes ==
    \A i \in 1..Len(string) : \E p \in mapping : p[2] = string[i]

\* C6 witness: an extend panicked at a rejected item and the buffer holds
\* the codes stored before it.
C6_Witness ==
    /\ last.op = "extend"
    /\ last.kind = "Panic"
    /\ Len(string) >= 2

(***************************************************************************)
(* The encoder on its own, over an alphabet that changes.                  *)
(***************************************************************************)
\* the alphabet changes its symbol list behind the encoder's back, as the
\* test alphabet's change_symbols does
ChangeSymbols(symbols) ==
    /\ Idle
    /\ symbols # alphabet.symbols
    /\ alphabet' = [alphabet EXCEPT !.symbols = symbols,
                                    !.changed_symbols = TRUE]
    /\ last' = Call("change_symbols", <<>>, symbols, "Ok", <<>>, <<>>)
    /\ UNCHANGED <<mapping, string, circular, genvars>>


\* recalculate_mapping that builds the mapping and does not store it
RecalculateMappingNotStored ==
    /\ Idle
    /\ \E built \in {construct_mapping(alphabet)} :
           last' = Call("recalculate_mapping", <<>>, <<>>, built.kind,
                        <<>>, <<>>)
    /\ UNCHANGED <<alphabet, mapping, string, circular, genvars>>

\* AsciiIndexEncoder::recalculate_mapping: a panic of construct_mapping
\* leaves self.mapping unassigned
RecalculateMapping ==
    /\ Idle
    /\ \E built \in {construct_mapping(alphabet)} :
           /\ mapping' = IF built.kind = "Ok" THEN built.value ELSE mapping
           /\ last' = Call("recalculate_mapping", <<>>, <<>>, built.kind,
                           <<>>, <<>>)
    /\ UNCHANGED <<alphabet, string, circular, genvars>>

Encode(symbol) ==
    /\ Idle
    /\ \E r \in {encode(mapping, alphabet, symbol)} :
           last' = Call("encode", symbol, <<>>, r.kind, r.value, <<>>)
    /\ UNCHANGED <<alphabet, mapping, string, circular, genvars>>

EncodeAll(syms) ==
    /\ Idle
    /\ \E r \in {encode_all(mapping, alphabet, syms)} :
           last' = Call("encode_all", <<>>, syms, r.kind, r.value, <<>>)
    /\ UNCHANGED <<alphabet, mapping, string, circular, genvars>>

Decode(bytes) ==
    /\ Idle
    /\ \E r \in {decode(mapping, bytes)} :
           last' = Call("decode", bytes, <<>>, r.kind, r.value, <<>>)
    /\ UNCHANGED <<alphabet, mapping, string, circular, genvars>>

DecodeAll(bytes) ==
    /\ Idle
    /\ \E r \in {decode_all(mapping, bytes)} :
           last' = Call("decode_all", bytes, <<>>, r.kind, <<>>, r.value)
    /\ UNCHANGED <<alphabet, mapping, string, circular, genvars>>

NextEnc ==
    \/ Forget
    \/ \E symbols \in SymbolLists(alphabet.symbol_size) : ChangeSymbols(symbols)
    \/ RecalculateMapping
    \/ \E symbol \in SymbolInputs(alphabet.symbol_size) : Encode(symbol)
    \/ \E syms \in SeqsUpTo(SymbolInputs(alphabet.symbol_size), MaxCodes) :
           EncodeAll(syms)
    \/ \E bytes \in ByteInputs : Decode(bytes)
    \/ \E bytes \in ByteInputs : DecodeAll(bytes)

SpecEnc == Init /\ [][NextEnc]_vars

(***************************************************************************)
(* Claims about AsciiIndexEncoder (specification SpecEnc).                 *)
(***************************************************************************)
\* the encoder was just built, or its mapping just rebuilt
JustBuilt ==
    last.op \in {"new", "recalculate_mapping"} /\ last.kind = "Ok"

\* the symbols of the alphabet's current list
CurrentSymbols == {alphabet.symbols[i] : i \in 1..Len(alphabet.symbols)}

\* C7: right after construction and right after every recalculate_mapping,
\* decode(encode(s)) = s for every symbol s of the alphabet's current list.
C7_RoundTrip ==
    JustBuilt =>
        \A s \in CurrentSymbols :
            \E e \in {encode(mapping, alphabet, s)} :
                /\ e.kind = "Ok"
                /\ decode(mapping, e.value) = Ok(s)

\* C7 witness: the alphabet changed to a list of two symbols and the
\* mapping was rebuilt.
C7_Witness ==
    /\ last.op = "recalculate_mapping"
    /\ last.kind = "Ok"
    /\ alphabet.changed_symbols
    /\ Len(alphabet.symbols) = 2
    /\ alphabet.symbol_size = 2

\* C8: right after construction and right after every recalculate_mapping,
\* the symbol at position i (0-based) of the current list encodes to the
\* one byte i, and that byte decodes to the symbol.
C8_CodeIsPosition ==
    JustBuilt =>
        \A i \in 1..Len(alphabet.symbols) :
            /\ encode(mapping, alphabet, alphabet.symbols[i]) = Ok(<<i - 1>>)
            /\ decode(mapping, <<i - 1>>) = Ok(alphabet.symbols[i])

\* C8 witness: the alphabet changed to a list of two symbols and the
\* rebuilt mapping gives each the byte of its position in that list.
C8_Witness ==
    /\ last.op = "recalculate_mapping"
    /\ last.kind = "Ok"
    /\ alphabet.changed_symbols
    /\ Len(alphabet.symbols) = 2
    /\ alphabet.symbols[1] = Utf8(<<593>>)
    /\ <<Utf8(<<593>>), 0>> \in mapping
    /\ <<Utf8(<<65>>), 1>> \in mapping

\* C9: right after construction and right after every recalculate_mapping,
\* the mapping pairs exactly the symbols of the current list, each with one
\* byte, and no two of them with the same byte.
C9_Bijection ==
    JustBuilt =>
        /\ {p[1] : p \in mapping} = CurrentSymbols
        /\ \A p, q \in mapping : (p[1] = q[1] \/ p[2] = q[2]) => p = q
        /\ Cardinality(mapping) = Cardinality(CurrentSymbols)

\* C9 witness: a rebuild after the alphabet changed to a list of one
\* symbol: the mapping holds one pair.
C9_Witness ==
    /\ last.op = "recalculate_mapping"
    /\ last.kind = "Ok"
    /\ alphabet.changed_symbols
    /\ Cardinality(mapping) = 1
    /\ Len(alphabet.symbols) = 1

\* C10: a change of the alphabet leaves the mapping as it was, and encode
\* and decode_all answer for every symbol and byte of that mapping as they
\* did before the change; only recalculate_mapping replaces the mapping.
C10_MutationKeepsMapping ==
    [][/\ last'.op = "change_symbols" =>
            /\ mapping' = mapping
            /\ \A p \in mapping :
                  /\ encode(mapping', alphabet', p[1])
                        = encode(mapping, alphabet, p[1])
                  /\ encode(mapping', alphabet', p[1]) = Ok(<<p[2]>>)
                  /\ decode_all(mapping', <<p[2]>>)
                        = decode_all(mapping, <<p[2]>>)
                  /\ decode_all(mapping', <<p[2]>>) = Ok(<<p[1]>>)
       /\ mapping' # mapping => last'.op = "recalculate_mapping"]_vars

\* C10 witness: the alphabet changed and no longer holds a symbol that the
\* mapping still has.
C10_Witness ==
    /\ last.op = "change_symbols"
    /\ \E p \in mapping : ~contains(alphabet, p[1])
    /\ \E i \in 1..Len(alphabet.symbols) : ~Mapped(mapping, alphabet.symbols[i])

\* the positions of syms whose symbol the mapping does not hold
Unmapped(m, syms) == {i \in 1..Len(syms) : ~Mapped(m, syms[i])}

\* the least position of a non-empty set of positions
First(S) == CHOOSE i \in S : \A j \in S : i <= j

\* C11 as stated: encode of a symbol that the alphabet does not hold
\* returns InvalidSymbol carrying the symbol, and encode_all of a list
\* holding such symbols returns the InvalidSymbol error of one of them.
C11_AbsentIsInvalidSymbol ==
    /\ (last.op = "encode" /\ ~contains(alphabet, last.str)) =>
          (last.kind = "InvalidSymbol" /\ last.out = last.str)
    /\ (/\ last.op = "encode_all"
        /\ \E i \in 1..Len(last.strs) : ~contains(alphabet, last.strs[i])) =>
          /\ last.kind = "InvalidSymbol"
          /\ \E i \in 1..Len(last.strs) :
                 ~contains(alphabet, last.strs[i]) /\ last.out = last.strs[i]

\* C11: encode never panics; encode of a symbol that neither the alphabet
\* nor the mapping holds returns InvalidSymbol carrying the symbol; and
\* encode_all of a list whose first symbol without a mapping is such a
\* symbol returns the InvalidSymbol error of that symbol.
C11_UnknownIsInvalidSymbol ==
    /\ last.op \in {"encode", "encode_all"} => last.kind # "Panic"
    /\ (/\ last.op = "encode"
        /\ ~contains(alphabet, last.str)
        /\ ~Mapped(mapping, last.str)) =>
          (last.kind = "InvalidSymbol" /\ last.out = last.str)
    /\ (/\ last.op = "encode_all"
        /\ Unmapped(mapping, last.strs) # {}) =>
          \E s \in {last.strs[First(Unmapped(mapping, last.strs))]} :
              ~contains(alphabet, s) =>
                  (last.kind = "InvalidSymbol" /\ last.out = s)

\* C11 witness: encode_all of a symbol of the mapping followed by a symbol
\* that neither the alphabet nor the mapping holds failed with that symbol.
C11_Witness ==
    /\ last.op = "encode_all"
    /\ Len(last.strs) = 2
    /\ Mapped(mapping, last.strs[1])
    /\ ~Mapped(mapping, last.strs[2])
    /\ ~contains(alphabet, last.strs[2])
    /\ last.kind = "InvalidSymbol"
    /\ last.out = last.strs[2]

\* C12: encode fails with NoMapping exactly when the alphabet's current
\* list holds the symbol and the mapping does not, which happens only
\* after the alphabet changed since the mapping was built.
C12_NoMappingIffStale ==
    last.op = "encode" =>
        /\ last.kind = "NoMapping" <=>
              (contains(alphabet, last.str) /\ ~Mapped(mapping, last.str))
        /\ last.kind = "NoMapping" => alphabet.changed_symbols

\* C12 witness: the alphabet gained a symbol, the mapping was not rebuilt,
\* and encode of the new symbol failed with NoMapping.
C12_Witness ==
    /\ last.op = "encode"
    /\ last.kind = "NoMapping"
    /\ alphabet.changed_symbols
    /\ contains(alphabet, last.str)
    /\ mapping # {}

\* C13: decode succeeds only on one code, and on every other input (none,
\* or two or more codes, mapped or not) fails with InvalidBytes carrying
\* the input.
C13_DecodeOneCodeOnly ==
    last.op = "decode" =>
        /\ last.kind = "Ok" => Len(last.str) = 1
        /\ Len(last.str) # 1 =>
              (last.kind = "InvalidBytes" /\ last.out = last.str)

\* C14: decode_all returns the symbols of the codes, one per code and in
\* their order, when the mapping holds every code, and otherwise fails with
\* NoMapping and returns no list.
C14_DecodeAll ==
    last.op = "decode_all" =>
        IF \A i \in 1..Len(last.str) :
               \E p \in mapping : p[2] = last.str[i]
        THEN /\ last.kind = "Ok"
             /\ Len(last.outs) = Len(last.str)
             /\ \A i \in 1..Len(last.str) :
                    <<last.outs[i], last.str[i]>> \in mapping
        ELSE /\ last.kind = "NoMapping"
             /\ last.outs = <<>>

\* C14 witness: decode_all of a code of the mapping followed by a code
\* that the mapping does not hold failed with NoMapping.
C14_Witness ==
    /\ last.op = "decode_all"
    /\ Len(last.str) = 2
    /\ \E p \in mapping : p[2] = last.str[1]
    /\ \A p \in mapping : p[2] # last.str[2]
    /\ last.kind = "NoMapping"

\* C15: encode_all returns the codes of its symbols, in their order, when
\* every symbol encodes, and otherwise the error of the first symbol that
\* does not encode and no codes.
C15_EncodeAll ==
    last.op = "encode_all" =>
        \E failing \in {{i \in 1..Len(last.strs) :
                            encode(mapping, alphabet, last.strs[i]).kind # "Ok"}} :
            IF failing = {}
            THEN /\ last.kind = "Ok"
                 /\ Len(last.out) = Len(last.strs)
                 /\ \A i \in 1..Len(last.strs) :
                        encode(mapping, alphabet, last.strs[i]) = Ok(<<last.out[i]>>)
            ELSE \E e \in {encode(mapping, alphabet, last.strs[First(failing)])} :
                     /\ last.kind = e.kind
                     /\ last.out = e.value

\* C15 witness: encode_all of two symbols that both fail, the first with
\* NoMapping and the second with InvalidSymbol, returned NoMapping.
C15_Witness ==
    /\ last.op = "encode_all"
    /\ Len(last.strs) = 2
    /\ encode(mapping, alphabet, last.strs[1]).kind = "NoMapping"
    /\ encode(mapping, alphabet, last.strs[2]).kind = "InvalidSymbol"
    /\ last.kind = "NoMapping"

\* a symbol list holding the same symbol at two positions
HasDuplicate(symbols) ==
    \E i, j \in 1..Len(symbols) : i # j /\ symbols[i] = symbols[j]

\* C16: construction and recalculate_mapping panic whenever the alphabet's
\* symbol list holds the same symbol at two positions.
C16_DuplicatePanics ==
    (last.op \in {"new", "recalculate_mapping"}
        /\ HasDuplicate(alphabet.symbols)) => last.kind = "Panic"

\* C16 witness: the alphabet, of a declared maximum within a byte, changed
\* to a list holding one symbol twice and recalculate_mapping panicked.
C16_Witness ==
    /\ last.op = "recalculate_mapping"
    /\ last.kind = "Panic"
    /\ alphabet.max_alphabet_size <= U8
    /\ Len(alphabet.symbols) = 2
    /\ alphabet.symbols[1] = alphabet.symbols[2]

(***************************************************************************)
(* The encoder over alphabets of about as many symbols as a byte has       *)
(* values.                                                                 *)
(***************************************************************************)
\* n different symbols of one char each: the chars from U+0100 on
WideSymbols(n) == [i \in 1..n |-> Utf8Char(U8 + i - 1)]

\* the numbers of symbols around the number of values of a byte
WideSizes == {U8 - 1, U8, U8 + 1}

WideAlphabets ==
    [symbols : {WideSymbols(n) : n \in WideSizes}, symbol_size : {1},
     max_alphabet_size : MaxAlphabetSizes, changed_symbols : {FALSE}]

\* AsciiIndexEncoder::new over one of the wide alphabets
InitWide ==
    /\ generator = NoGenerator
    /\ id_iter = NoIter
    /\ overflow_checks = FALSE
    /\ pointer_width = 64
    /\ alphabet \in WideAlphabets
    /\ circular = FALSE
    /\ string = <<>>
    /\ \E built \in {construct_mapping(alphabet)} :
           /\ mapping = IF built.kind = "Ok" THEN built.value ELSE {}
           /\ last = Call("new", <<>>, <<>>, built.kind, <<>>, <<>>)

NextWide ==
    \/ Forget
    \/ \E n \in WideSizes : ChangeSymbols(WideSymbols(n))
    \/ RecalculateMapping
    \/ \E i \in 1..(U8 + 1) : Encode(WideSymbols(U8 + 1)[i])
    \/ \E byte \in {0, U8 - 2, U8 - 1} : Decode(<<byte>>)

SpecWide == InitWide /\ [][NextWide]_vars

\* C17: building the mapping panics whenever the alphabet declares a
\* maximum of more than 256 symbols or holds more than 256 symbols, and
\* succeeds for a list of at most 256 different symbols with a declared
\* maximum of at most 256, each symbol getting the byte of its position,
\* the symbol at position 255 the byte 255.
C17_ConstructionLimit ==
    last.op \in {"new", "recalculate_mapping"} =>
        /\ (alphabet.max_alphabet_size > 256 \/ Len(alphabet.symbols) > 256)
              => last.kind = "Panic"
        /\ (/\ ~HasDuplicate(alphabet.symbols)
            /\ Len(alphabet.symbols) <= 256
            /\ alphabet.max_alphabet_size <= 256) =>
              /\ last.kind = "Ok"
              /\ \A i \in 1..Len(alphabet.symbols) :
                     /\ <<alphabet.symbols[i], i - 1>> \in mapping
                     /\ encode(mapping, alphabet, alphabet.symbols[i])
                           = Ok(<<i - 1>>)

\* C17 witness: an encoder was constructed over 256 different symbols and
\* the last of them has the byte 255.
C17_Witness ==
    /\ last.op = "new"
    /\ last.kind = "Ok"
    /\ Len(alphabet.symbols) = 256
    /\ alphabet.max_alphabet_size = 256
    /\ <<alphabet.symbols[256], 255>> \in mapping

(***************************************************************************)
(* ByteIdGenerator.  A u64 is the sequence of its 64 bits, the most        *)
(* significant first; an f64 of a positive value is its exponent and the   *)
(* 52 bits of its fraction: 2^exp * (1 + frac / 2^52).                     *)
(***************************************************************************)
\* the number of bits of a u64
U64Bits == 64

\* the number of bytes of a u64 (idx.to_be_bytes() is a [u8; 8])
U64Bytes == 8

\* the number of fraction bits of an f64
F64FracBits == 52

Zero64 == [i \in 1..U64Bits |-> 0]

\* std::u64::MAX
U64_MAX == [i \in 1..U64Bits |-> 1]

\* x > y on u64
Gt(x, y) ==
    \E i \in 1..U64Bits :
        /\ x[i] > y[i]
        /\ \A j \in 1..(i - 1) : x[j] = y[j]

\* u64::pow(2, e): the wrapped value, and whether the power overflowed
pow2(e) ==
    [overflow |-> e >= U64Bits,
     value    |-> [i \in 1..U64Bits |-> IF i = U64Bits - e THEN 1 ELSE 0]]

\* x - 1 on u64: the wrapped value, and whether the subtraction overflowed
sub1(x) ==
    [overflow |-> x = Zero64,
     value    |-> [i \in 1..U64Bits |->
                      IF \A j \in (i + 1)..U64Bits : x[j] = 0
                      THEN 1 - x[i] ELSE x[i]]]

\* x + 1 on u64: the wrapped value, and whether the addition overflowed
add1(x) ==
    [overflow |-> x = U64_MAX,
     value    |-> [i \in 1..U64Bits |->
                      IF \A j \in (i + 1)..U64Bits : x[j] = 1
                      THEN 1 - x[i] ELSE x[i]]]

\* u64::to_be_bytes
to_be_bytes(x) ==
    [k \in 1..U64Bytes |->
        128 * x[8 * k - 7] + 64 * x[8 * k - 6] + 32 * x[8 * k - 5]
        + 16 * x[8 * k - 4] + 8 * x[8 * k - 3] + 4 * x[8 * k - 2]
        + 2 * x[8 * k - 1] + x[8 * k]]

\* x as f64, for x > 0: the 53 leading bits of x from its first 1 on,
\* rounded to nearest, ties to even
as_f64(x) ==
    LET p      == CHOOSE i \in 1..U64Bits :
                      x[i] = 1 /\ \A j \in 1..(i - 1) : x[j] = 0
        bit(i) == IF i <= U64Bits THEN x[i] ELSE 0
        kept   == [i \in 1..F64FracBits |-> bit(p + i)]
        half   == bit(p + F64FracBits + 1) = 1
        sticky == \E i \in (p + F64FracBits + 2)..U64Bits : x[i] = 1
        up     == half /\ (sticky \/ kept[F64FracBits] = 1)
    IN  IF ~up THEN [exp |-> U64Bits - p, frac |-> kept]
        ELSE IF \A i \in 1..F64FracBits : kept[i] = 1
        THEN [exp |-> U64Bits - p + 1, frac |-> [i \in 1..F64FracBits |-> 0]]
        ELSE [exp  |-> U64Bits - p,
              frac |-> [i \in 1..F64FracBits |->
                           IF \A j \in (i + 1)..F64FracBits : kept[j] = 1
                           THEN 1 - kept[i] ELSE kept[i]]]

\* the greatest fraction j (in units of 2^-52) for which log2(1 + j / 2^52)
\* is at most half the gap between the f64 e and the next f64: the f64
\* nearest to log2(2^e * (1 + j / 2^52)) is then e itself
LogFracLimit(e) ==
    IF e >= 32 THEN 11 ELSE IF e >= 16 THEN 5 ELSE IF e >= 8 THEN 2
    ELSE IF e >= 4 THEN 1 ELSE 0

\* f64::log2(f).ceil(), log2 giving the f64 nearest to the logarithm
log2_ceil(f) ==
    LET low == 8 * f.frac[F64FracBits - 3] + 4 * f.frac[F64FracBits - 2]
               + 2 * f.frac[F64FracBits - 1] + f.frac[F64FracBits]
    IN  IF \A i \in 1..F64FracBits : f.frac[i] = 0 THEN f.exp
        ELSE IF /\ \A i \in 1..(F64FracBits - 4) : f.frac[i] = 0
                /\ low <= LogFracLimit(f.exp)
        THEN f.exp
        ELSE f.exp + 1

\* ByteIdGenerator::from_max; (c / 8.0).ceil() of a whole c of at most 64
\* is exact
from_max(max_idx) ==
    LET num_bytes ==
            IF max_idx # U64_MAX
            THEN (log2_ceil(as_f64(add1(max_idx).value)) + 7) \div 8
            ELSE 8
    IN  [max |-> max_idx, num_bytes |-> num_bytes]

\* ByteIdGenerator::from_byte_count in a build with or without overflow
\* checks
from_byte_count(num_bytes, checks) ==
    LET power == pow2(num_bytes * 8)
        max   == sub1(power.value)
    IN  IF checks /\ (power.overflow \/ max.overflow) THEN Panic
        ELSE Ok([max |-> max.value, num_bytes |-> num_bytes])

\* get_id_unchecked: the last byte_count of the eight bytes; the slice
\* start 8 - byte_count below 0 panics
get_id_unchecked(idx, byte_count) ==
    IF byte_count > U64Bytes THEN Panic
    ELSE Ok(SubSeq(to_be_bytes(idx), U64Bytes - byte_count + 1, U64Bytes))

\* get_id with the bound of the stateless get_id: what byte_count bytes hold
get_id_by_bytes(g, idx) ==
    IF Gt(idx, sub1(pow2(g.num_bytes * 8).value).value)
    THEN Err("OutOfRange", <<>>)
    ELSE get_id_unchecked(idx, g.num_bytes)

\* ByteIdGenerator::get_id
get_id(g, idx) ==
    IF Gt(idx, g.max) THEN Err("OutOfRange", <<>>)
    ELSE get_id_unchecked(idx, g.num_bytes)

\* the u64 of a number below 2^31
FromNat(n) ==
    [i \in 1..U64Bits |-> IF U64Bits - i < 31 THEN (n \div 2^(U64Bits - i)) % 2
                          ELSE 0]

\* u64::MAX - x
Complement(x) == [i \in 1..U64Bits |-> 1 - x[i]]

\* x - 2, x - 1, x and x + 1
Around(x) == {sub1(sub1(x).value).value, sub1(x).value, x, add1(x).value}

\* the indices handed to from_max and get_id: those around each byte
\* boundary 2^8 .. 2^56 and around 2^53, small ones, and the greatest
Indices ==
    UNION {Around(pow2(8 * n).value) : n \in 1..(U64Bytes - 1)}
    \cup Around(pow2(F64FracBits + 1).value)
    \cup {Zero64, FromNat(1), FromNat(33), FromNat(100),
          Complement(FromNat(500)), Complement(FromNat(1)), U64_MAX}

\* the byte counts handed to from_byte_count
ByteCounts == 0..U64Bytes

InitGen ==
    /\ alphabet = [symbols |-> <<>>, symbol_size |-> 1,
                   max_alphabet_size |-> U8, changed_symbols |-> FALSE]
    /\ mapping = {}
    /\ string = <<>>
    /\ circular = FALSE
    /\ last = NoCall
    /\ generator = NoGenerator
    /\ id_iter = NoIter
    /\ overflow_checks \in BOOLEAN
    /\ pointer_width \in {32, 64}

\* a generator is not replaced while a ByteIdIter borrows it
FromMax(max_idx) ==
    /\ Idle
    /\ id_iter = NoIter
    /\ generator' = from_max(max_idx)
    /\ last' = Call("from_max", max_idx, <<>>, "Ok", <<>>, <<>>)
    /\ UNCHANGED <<alphabet, mapping, string, circular, overflow_checks,
                   pointer_width, id_iter>>

FromByteCount(num_bytes) ==
    /\ Idle
    /\ id_iter = NoIter
    /\ \E r \in {from_byte_count(num_bytes, overflow_checks)} :
           /\ generator' = IF r.kind = "Ok" THEN r.value ELSE generator
           /\ last' = Call("from_byte_count", <<num_bytes>>, <<>>, r.kind,
                           <<>>, <<>>)
    /\ UNCHANGED <<alphabet, mapping, string, circular, overflow_checks,
                   pointer_width, id_iter>>

GetId(idx) ==
    /\ Idle
    /\ generator # NoGenerator
    /\ \E r \in {get_id(generator, idx)} :
           last' = Call("get_id", idx, <<>>, r.kind, r.value, <<>>)
    /\ UNCHANGED <<alphabet, mapping, string, circular, genvars>>

NextGen ==
    \/ Forget
    \/ \E max_idx \in Indices : FromMax(max_idx)
    \/ \E num_bytes \in ByteCounts : FromByteCount(num_bytes)
    \/ \E idx \in Indices : GetId(idx)

SpecGen == InitGen /\ [][NextGen]_vars

\* 2^(8n) - 1, the greatest u64 of n bytes
MaxOfBytes(n) == [i \in 1..U64Bits |-> IF i > U64Bits - 8 * n THEN 1 ELSE 0]

\* the u64 whose big-endian bytes, without leading zero bytes, are bytes
FromBe(bytes) ==
    [i \in 1..U64Bits |->
        LET k == ((i - 1) \div 8) + 1 - (U64Bytes - Len(bytes))
            b == 7 - ((i - 1) % 8)
        IN  IF k < 1 THEN 0 ELSE (bytes[k] \div 2^b) % 2]

\* C18: from_max(max_index) yields a generator of that maximum whose
\* num_bytes is at most 8 and is the smallest n with
\* max_index <= 2^(8n) - 1.
C18_FromMaxSmallest ==
    last.op = "from_max" =>
        /\ generator.max = last.str
        /\ generator.num_bytes \in 0..8
        /\ ~Gt(generator.max, MaxOfBytes(generator.num_bytes))
        /\ \A n \in 0..(generator.num_bytes - 1) :
               Gt(generator.max, MaxOfBytes(n))

\* C19: from_byte_count(n) with 1 <= n <= 8 returns, without a fault, a
\* generator with num_bytes = n and max_index = 2^(8n) - 1.
C19_FromByteCount ==
    (last.op = "from_byte_count" /\ last.str[1] \in 1..8) =>
        /\ last.kind = "Ok"
        /\ generator.num_bytes = last.str[1]
        /\ generator.max = MaxOfBytes(last.str[1])

\* C20: get_id(idx) with idx <= max_index returns num_bytes bytes whose
\* big-endian value is idx.
C20_GetIdBigEndian ==
    (last.op = "get_id" /\ ~Gt(last.str, generator.max)) =>
        /\ last.kind = "Ok"
        /\ Len(last.out) = generator.num_bytes
        /\ FromBe(last.out) = last.str

\* C21: get_id(idx) returns the out-of-range error if and only if idx is
\* greater than the generator's max, also when idx fits num_bytes bytes.
C21_OutOfRangeIffAboveMax ==
    last.op = "get_id" =>
        (last.kind = "OutOfRange" <=> Gt(last.str, generator.max))

\* C21 witness: a generator from from_max(100) refused an idx above 100
\* that one byte holds.
C21_Witness ==
    /\ last.op = "get_id"
    /\ last.kind = "OutOfRange"
    /\ generator = [max |-> FromNat(100), num_bytes |-> 1]
    /\ ~Gt(last.str, MaxOfBytes(1))

(***************************************************************************)
(* ByteIdIter: a traversal of a ByteIdGenerator.                           *)
(***************************************************************************)
\* most calls of next in a row from one of the Indices on
MaxNexts == 3

\* x - y on u64: the wrapped value, and whether the subtraction overflowed
sub(x, y) ==
    [overflow |-> Gt(y, x),
     value    |-> [i \in 1..U64Bits |->
                      LET borrow == \E j \in (i + 1)..U64Bits :
                                        /\ x[j] < y[j]
                                        /\ \A k \in (i + 1)..(j - 1) : x[k] = y[k]
                      IN  (x[i] + y[i] + (IF borrow THEN 1 ELSE 0)) % 2]]

\* IntoIterator::into_iter for &ByteIdGenerator
into_iter == [index |-> Zero64]

\* ByteIdIter::next in a build with or without overflow checks: the
\* result, and the iterator after the call
next(g, it, checks) ==
    IF Gt(it.index, g.max)
    THEN [kind |-> "None", value |-> <<>>, iter |-> it]
    ELSE LET res   == get_id_unchecked(it.index, g.num_bytes)
             index == add1(it.index)
         IN  IF res.kind = "Panic" \/ (checks /\ index.overflow)
             THEN [kind |-> "Panic", value |-> <<>>, iter |-> it]
             ELSE [kind |-> "Some", value |-> res.value,
                   iter |-> [index |-> index.value]]

\* ToPrimitive::to_usize of a u64 where a usize has width bits
to_usize(x, width) ==
    IF \A i \in 1..(U64Bits - width) : x[i] = 0 THEN <<x>> ELSE <<>>

\* ByteIdIter::size_hint: "Exact" with n stands for (n, Some(n)),
\* "NoUpper" for (usize::MAX, None)
size_hint(g, it, checks, width) ==
    LET diff == sub(g.max, it.index)
        size == to_usize(diff.value, width)
    IN  IF checks /\ diff.overflow THEN Panic
        ELSE IF size # <<>> THEN [kind |-> "Exact", value |-> size[1]]
        ELSE [kind |-> "NoUpper", value |-> MaxOfBytes(width \div 8)]

IntoIter ==
    /\ Idle
    /\ generator # NoGenerator
    /\ id_iter' = into_iter
    /\ last' = Call("into_iter", <<>>, <<>>, "Ok", <<>>, <<>>)
    /\ UNCHANGED <<alphabet, mapping, string, circular, generator,
                   overflow_checks, pointer_width>>

RECURSIVE Plus(_, _)
\* x + d on u64, wrapped
Plus(x, d) == IF d = 0 THEN x ELSE Plus(add1(x).value, d - 1)

\* the indices at most MaxNexts above one of the Indices
NearIndices == {Plus(t, d) : t \in Indices, d \in 0..MaxNexts}

IterNext ==
    /\ Idle
    /\ id_iter # NoIter
    /\ id_iter.index \in NearIndices
    /\ \E r \in {next(generator, id_iter, overflow_checks)} :
           /\ id_iter' = r.iter
           /\ last' = Call("next", id_iter.index, <<>>, r.kind, r.value, <<>>)
    /\ UNCHANGED <<alphabet, mapping, string, circular, generator,
                   overflow_checks, pointer_width>>

\* the calls of next that take the items before the one of index t, none
\* of them the last item
TakeUntil(t) ==
    /\ Idle
    /\ id_iter # NoIter
    /\ Gt(t, id_iter.index)
    /\ ~Gt(t, generator.max)
    /\ id_iter' = [index |-> t]
    /\ UNCHANGED <<alphabet, mapping, string, circular, last, generator,
                   overflow_checks, pointer_width>>

SizeHint ==
    /\ Idle
    /\ id_iter # NoIter
    /\ \E r \in {size_hint(generator, id_iter, overflow_checks, pointer_width)} :
           last' = Call("size_hint", id_iter.index, <<>>, r.kind, r.value, <<>>)
    /\ UNCHANGED <<alphabet, mapping, string, circular, genvars>>

NextIter ==
    \/ Forget
    \/ \E max_idx \in Indices : FromMax(max_idx)
    \/ \E num_bytes \in ByteCounts : FromByteCount(num_bytes)
    \/ IntoIter
    \/ IterNext
    \/ \E t \in Indices : TakeUntil(t)
    \/ SizeHint

SpecIter == InitGen /\ [][NextIter]_vars

\* C22: a traversal starts at index 0 whatever went before; next at an
\* index up to max yields the identifier of that index and moves on by
\* one; after the item of max the traversal has ended, and next at the end
\* yields nothing.
C22_Traversal ==
    [][/\ last'.op = "into_iter" => id_iter'.index = Zero64
       /\ last'.op = "next" =>
            IF Gt(id_iter.index, generator.max)
            THEN last'.kind = "None" /\ id_iter' = id_iter
            ELSE /\ last'.kind = "Some"
                 /\ Ok(last'.out) = get_id(generator, id_iter.index)
                 /\ IF id_iter.index = generator.max
                    THEN next(generator, id_iter', overflow_checks).kind = "None"
                    ELSE id_iter'.index = add1(id_iter.index).value]_vars

\* the number of items a traversal at index still yields: max - index + 1
\* up to the item of max, none after it
Remaining(g, index) ==
    IF Gt(index, g.max) THEN Zero64 ELSE add1(sub(g.max, index).value).value

\* C26: size_hint returns, without a fault, (n, Some(n)) with n the number
\* of items that the traversal still yields.
C26_SizeHintExact ==
    last.op = "size_hint" =>
        /\ last.kind = "Exact"
        /\ last.out = Remaining(generator, id_iter.index)

(***************************************************************************)
(* Claims about clear, extend and Display of a Sequence.                   *)
(***************************************************************************)
\* C23: clear leaves the buffer empty and the mapping, the alphabet and
\* the circular flag as they were, so that a push after it returns and
\* stores what the same push does on a newly constructed sequence.
C23_ClearFrame ==
    [][last'.op = "clear" =>
          /\ string' = <<>>
          /\ mapping' = mapping
          /\ alphabet' = alphabet
          /\ circular' = circular
          /\ \A seq \in Texts :
                 push(mapping', alphabet', string', seq)
                     = push(construct_mapping(alphabet).value, alphabet,
                            <<>>, seq)]_vars

\* C23 witness: a sequence with a mapping of two symbols was cleared.
C23_Witness ==
    /\ last.op = "clear"
    /\ string = <<>>
    /\ Cardinality(mapping) = 2
    /\ circular

\* the items of a list whose push fails
Failing(m, a, items) ==
    {i \in 1..Len(items) : push(m, a, <<>>, items[i]).result.kind # "Ok"}

\* C24: extend appends the codes of its items in their order, as push
\* does; at the first item whose push fails it stops with a panic, the
\* codes of the items before that one stay in the buffer and nothing of
\* the failing item or of the items after it is appended.
C24_ExtendStopsAtFirstFailure ==
    [][last'.op = "extend" =>
          \E failing \in {Failing(mapping, alphabet, last'.strs)} :
              \E pushed \in {IF failing = {} THEN Len(last'.strs)
                             ELSE First(failing) - 1} :
                  /\ last'.kind = (IF failing = {} THEN "Ok" ELSE "Panic")
                  /\ string' = string \o
                        Flatten([i \in 1..pushed |->
                                    CodesOf(mapping, last'.strs[i],
                                            alphabet.symbol_size)])]_vars

\* C24 witness: extend panicked at its second item and the codes of its
\* first item are the end of the buffer.
C24_Witness ==
    /\ last.op = "extend"
    /\ last.kind = "Panic"
    /\ Len(last.strs) >= 2
    /\ Failing(mapping, alphabet, last.strs) # {}
    /\ First(Failing(mapping, alphabet, last.strs)) = 2
    /\ Len(string) >= 1
    /\ \E codes \in {CodesOf(mapping, last.strs[1], alphabet.symbol_size)} :
           /\ Len(codes) >= 1
           /\ Len(string) >= Len(codes)
           /\ SubSeq(string, Len(string) - Len(codes) + 1, Len(string)) = codes

(***************************************************************************)
(* Display of a Sequence.  The buffers are built by pushes of long runs   *)
(* of one symbol, so that they hold fewer, exactly and more codes than     *)
(* Display renders.                                                        *)
(***************************************************************************)
\* the most codes fmt renders
DisplayLimit == 50

\* "Sequence: ", the text fmt writes before the symbols
DisplayLabel == <<83, 101, 113, 117, 101, 110, 99, 101, 58, 32>>

\* the longest buffer built
MaxLongBuf == 67

\* the numbers of chars pushed at once: 17 or 25 symbols of one or of two
\* chars
RunLengths == {17, 25, 34, 50}

\* fmt rendering every code of the buffer
fmt_all(m, str) ==
    LET seq_vec == decode_all(m, str)
    IN  IF seq_vec.kind # "Ok" THEN Panic
        ELSE Ok(DisplayLabel \o Flatten(seq_vec.value))

\* <Sequence as fmt::Display>::fmt: the text written
fmt(m, str) ==
    LET num_chars == IF DisplayLimit <= Len(str) THEN DisplayLimit ELSE Len(str)
        seq_vec   == decode_all(m, SubSeq(str, 1, num_chars))
    IN  IF seq_vec.kind # "Ok" THEN Panic
        ELSE Ok(DisplayLabel \o Flatten(seq_vec.value))

\* runs of one char
LongTexts == {Utf8(Rep(c, n)) : c \in Chars, n \in RunLengths}

\* Sequence::push of a long text
PushLong(seq) ==
    /\ Idle
    /\ \E r \in {push(mapping, alphabet, string, seq)} :
           /\ Len(r.string) <= MaxLongBuf
           /\ string' = r.string
           /\ last' = Call("push", seq, <<>>, r.result.kind, r.result.value, <<>>)
    /\ UNCHANGED <<alphabet, mapping, circular, genvars>>

\* format!("{}", sequence)
Display ==
    /\ Idle
    /\ \E r \in {fmt(mapping, string)} :
           last' = Call("display", <<>>, <<>>, r.kind, r.value, <<>>)
    /\ UNCHANGED <<alphabet, mapping, string, circular, genvars>>

NextDisplay ==
    \/ Forget
    \/ \E seq \in LongTexts : PushLong(seq)
    \/ Display
    \/ Clear

SpecDisplay == Init /\ [][NextDisplay]_vars

\* C25: Display renders, after its label, the symbols of the first
\* min(50, number of codes) codes of the buffer, concatenated in buffer
\* order, and leaves the buffer as it was; no code after the first 50 is
\* rendered.
C25_DisplayFirstFifty ==
    [][last'.op = "display" =>
          /\ string' = string
          /\ last'.kind = "Ok"
          /\ \E shown \in {IF Len(string) < 50 THEN Len(string) ELSE 50} :
                 last'.out = DisplayLabel \o
                     Flatten([i \in 1..shown |->
                                 alphabet.symbols[string[i] + 1]])]_vars

\* C25 witness: a buffer of more than 50 codes, whose 51st code differs
\* from its 50th, was displayed.
C25_Witness ==
    /\ last.op = "display"
    /\ last.kind = "Ok"
    /\ Len(string) > 50
    /\ string[51] # string[50]
    /\ Len(last.out) > Len(DisplayLabel)

====
